---- MODULE Spec2Model ----
(***************************************************************************)
(* DNS resolver speed test (src/main.py): the probe executor               *)
(* (test_resolver_speed), the resolver task with its quick-fail breaker    *)
(* (test_resolver), the thread-pool run of main() and the cross-run        *)
(* failure history (load/save_test_history, should_drop_resolver,          *)
(* update_failure_history).                                                *)
(*                                                                         *)
(* Python values: Optional[x] is the set {} (None) or {x}; a dict is a     *)
(* function whose DOMAIN is its key set; an error message is the sequence  *)
(* of its words, so that lower() and the substring test of line 249 are    *)
(* computed on the text and not on the branch that produced it.            *)
(***************************************************************************)
EXTENDS Integers, Sequences, FiniteSets, TLC

\* ------------------------------------------------------------- bounds
\* Length of the domain catalog of the model (TEST_DOMAINS holds 50 names).
NumDomains == 4
\* Largest --retries value the model draws.
MaxRetries == 1
\* How many times the program is started on the same history file.
MaxRuns == 2
\* Longest result list, and largest response time in ms, handed to
\* Statistics.from_results on its own.
MaxLen == 3
MaxTime == 3

\* ------------------------------------------------- program constants
\* The exit statuses: main returns, sys.exit(1) of line 394, sys.exit(1) of
\* line 398.
SuccessStatus == 0
InterruptStatus == 1
ErrorStatus == 1
DEFAULT_MAX_CONSECUTIVE_FAILURES == 3
DEFAULT_QUICK_FAIL_THRESHOLD == 3

\* The resolver catalog, by address (two of the catalog's entries).
DNS_RESOLVERS == <<"8.8.8.8", "1.1.1.1">>
\* The domain catalog, in order; a domain is named by its position.
TEST_DOMAINS == [i \in 1..NumDomains |-> i]

Resolvers == {DNS_RESOLVERS[i] : i \in 1..Len(DNS_RESOLVERS)}

\* ----------------------------------------------------- Python values
None == {}
Some(x) == {x}

\* DNSResult(response_time, error, timestamp); the timestamp is not modelled.
\* cls is a ghost field: the branch of the code that built the value.
DNSResult(response_time, error, cls) ==
    [type |-> "DNSResult", response_time |-> response_time, error |-> error, cls |-> cls]
\* What a Python function returns when it falls off its end.
PyNone == [type |-> "NoneType"]

\* dict.get(key, 0)
Get(d, key) == IF key \in DOMAIN d THEN d[key] ELSE 0
\* d[key] = value
Put(d, key, value) == [k \in DOMAIN d \cup {key} |-> IF k = key THEN value ELSE d[k]]
EmptyDict == [k \in {} |-> 0]

\* ------------------------------------------------------ message text
\* str.lower() on one word of the messages the program can build.
LowerWord(w) ==
    CASE w = "Timeout" -> "timeout"
      [] w = "Skipped" -> "skipped"
      [] w = "Error" -> "error"
      [] w = "The" -> "the"
      [] w = "DNS" -> "dns"
      [] w = "SERVFAIL" -> "servfail"
      [] OTHER -> w
Lower(msg) == [i \in 1..Len(msg) |-> LowerWord(msg[i])]
\* "timeout" in msg
ContainsTimeout(msg) == \E i \in 1..Len(msg) : msg[i] = "timeout"

\* f"Timeout after {config.max_retries} retries"
TimeoutMessage == <<"Timeout", "after", "retries">>
\* f"Error testing {resolver.ip} with {domain}: {str(e)}"
ErrorMessage(text) == <<"Error", "testing", "with">> \o text
SkippedMessage == <<"Skipped", "after", "multiple", "failures">>

\* ------------------------------------- outcomes of dns_resolver.resolve
\* One call of the resolution primitive returns an answer or raises; text is
\* str(e) of what it raised.
Answer == [kind |-> "answer", text |-> <<>>]
NoRecord == [kind |-> "NXDOMAIN", text |-> <<"The", "DNS", "query", "name", "does", "not", "exist">>]
TimedOut == [kind |-> "Timeout", text |-> <<"The", "DNS", "operation", "timed", "out">>]
ServFail == [kind |-> "Exception", text |-> <<"SERVFAIL">>]
ConnectTimeout == [kind |-> "Exception", text |-> <<"connect", "timeout">>]
AllOutcomes == {Answer, NoRecord, TimedOut, ServFail, ConnectTimeout}
RunOutcomes == {Answer, TimedOut}
\* (end_time - start_time) * 1000 of a successful attempt, in ms.
ResponseTime == 20

\* ------------------------------------------------------------- state
VARIABLES
    config,            \* Config built by parse_arguments
    store,             \* HISTORY_FILE on disk: [exists, data]
    failure_history,   \* main's failure_history dict
    active_resolvers,  \* main's active_resolvers list
    dropped_resolvers, \* main's dropped_resolvers list
    submitted,         \* number of futures created by the submit comprehension
    queue,             \* the executor's work queue, oldest first
    task,              \* per resolver: the frame of its test_resolver call
    all_results,       \* main's all_results dict
    consumed,          \* futures as_completed has yielded and main has processed
    completed,         \* main's completed counter
    mainpc,            \* where main() is
    exit_code,         \* the process's exit status, None while it runs
    loaded,            \* ghost: failure_history as load_test_history returned it
    updates,           \* ghost: update_failure_history calls per resolver
    resolver_stats,    \* main's resolver_stats dict
    banned,            \* ghost: resolvers some run of the program found dropped
    runs               \* ghost: how many times the program was started

vars == <<config, store, failure_history, active_resolvers, dropped_resolvers,
          submitted, queue, task, all_results, consumed, completed, mainpc,
          exit_code, loaded, updates, resolver_stats, banned, runs>>

\* ------------------------------------------------- parse_arguments
\* The command line: the values argparse hands to Config(...).
ParseArguments(args) ==
    [max_retries |-> args.retries,
     max_workers |-> args.workers,
     max_consecutive_failures |-> args.max_failures,
     quick_fail_threshold |-> args.quick_fail]

\* ------------------------------------------------- failure history
\* HISTORY_FILE: missing, or holding the JSON of a dict of counts (data), or
\* text json.load rejects (an empty or cut-off file among them), or JSON that
\* json.load accepts and that is no mapping from address to integer, such as
\* [] or {"8.8.8.8": "3"}.
MissingFile == [exists |-> FALSE, kind |-> "none", data |-> EmptyDict]
JsonFile(d) == [exists |-> TRUE, kind |-> "dict", data |-> d]
NotJsonFile == [exists |-> TRUE, kind |-> "not_json", data |-> EmptyDict]
OtherJsonFile == [exists |-> TRUE, kind |-> "other_json", data |-> EmptyDict]
\* What json.load returns for OtherJsonFile: one value that stands for the
\* list and for the dict with a str count.
NotCounts == [k \in {"<no mapping of counts>"} |-> -1]

\* load_test_history: json.load of the file; {} when the file is missing or
\* json.load raises JSONDecodeError.
load_test_history(file) ==
    IF ~file.exists THEN EmptyDict
    ELSE IF file.kind = "not_json" THEN EmptyDict
    ELSE IF file.kind = "other_json" THEN NotCounts
    ELSE file.data
\* failure_history.get(ip, 0) >= 3 raises on such a value (AttributeError on
\* a list, TypeError on a str count)
DropTestRaises(history) == history = NotCounts

should_drop_resolver(ip, history) ==
    Get(history, ip) >= DEFAULT_MAX_CONSECUTIVE_FAILURES

\* update_failure_history whose success resets every counter of the map.
update_failure_history_reset_all(ip, success, history) ==
    IF success THEN [k \in DOMAIN history \cup {ip} |-> 0]
    ELSE Put(history, ip, Get(history, ip) + 1)

\* update_failure_history that counts a successful run as one more failure.
update_failure_history_no_reset(ip, success, history) ==
    Put(history, ip, Get(history, ip) + 1)

update_failure_history(ip, success, history) ==
    IF success THEN Put(history, ip, 0)
    ELSE Put(history, ip, Get(history, ip) + 1)

\* --------------------------------------------- Statistics.from_results
\* A float is held as the exact fraction it rounds, in lowest terms.
RECURSIVE Gcd(_, _)
Gcd(a, b) == IF b = 0 THEN a ELSE Gcd(b, a % b)
Frac(n, d) == LET g == Gcd(n, d) IN [num |-> n \div g, den |-> d \div g]
Zero == [num |-> 0, den |-> 1]

\* sum(xs) and the sum of the squares
RECURSIVE Sum(_)
Sum(xs) == IF xs = <<>> THEN 0 ELSE Head(xs) + Sum(Tail(xs))
RECURSIVE SumSq(_)
SumSq(xs) == IF xs = <<>> THEN 0 ELSE Head(xs) * Head(xs) + SumSq(Tail(xs))
\* sorted(xs)
RECURSIVE Insert(_, _)
Insert(x, xs) ==
    IF xs = <<>> THEN <<x>>
    ELSE IF x <= Head(xs) THEN <<x>> \o xs
    ELSE <<Head(xs)>> \o Insert(x, Tail(xs))
RECURSIVE Sorted(_)
Sorted(xs) == IF xs = <<>> THEN <<>> ELSE Insert(Head(xs), Sorted(Tail(xs)))

\* statistics.mean, statistics.median
Mean(xs) == Frac(Sum(xs), Len(xs))
Median(xs) ==
    LET ys == Sorted(xs)
        n == Len(xs)
    IN  IF n % 2 = 1 THEN Frac(ys[(n + 1) \div 2], 1)
        ELSE Frac(ys[n \div 2] + ys[n \div 2 + 1], 2)
\* statistics.stdev, the sample standard deviation, held as its square (the
\* sample variance): sum((x - mean)^2) / (n - 1)
Stdev(xs) ==
    LET n == Len(xs)
    IN  Frac(n * SumSq(xs) - Sum(xs) * Sum(xs), n * (n - 1))

\* [r.response_time for r in results if r.response_time is not None]
TimesOf(results) ==
    LET valid == SelectSeq(results, LAMBDA r : r.response_time # None)
    IN  [i \in 1..Len(valid) |-> CHOOSE t \in valid[i].response_time : TRUE]

\* calculate_statistics: (avg_time, success_count); avg_time is None without
\* a valid time.  Every modelled time is ResponseTime, and so is their mean.
ValidTimes(results) == SelectSeq(results, LAMBDA r : r.response_time # None)
calculate_statistics(results) ==
    [avg_time |-> IF ValidTimes(results) # <<>> THEN Some(Mean(TimesOf(results))) ELSE None,
     success_count |-> Len(ValidTimes(results))]
\* line 335
RunSucceeded(results) ==
    LET st == calculate_statistics(results)
    IN  st.avg_time # None /\ st.success_count > 0

\* from_results that divides by the number of valid times.
from_results_rate_of_valid(results) ==
    LET valid_times == TimesOf(results)
    IN  IF valid_times = <<>>
        THEN [min_time |-> Zero, max_time |-> Zero, avg_time |-> Zero,
              median_time |-> Zero, std_dev |-> Zero, success_rate |-> Zero,
              total_queries |-> Len(results)]
        ELSE [min_time |-> Frac(Sorted(valid_times)[1], 1),
              max_time |-> Frac(Sorted(valid_times)[Len(valid_times)], 1),
              avg_time |-> Mean(valid_times),
              median_time |-> Median(valid_times),
              std_dev |-> IF Len(valid_times) > 1 THEN Stdev(valid_times) ELSE Zero,
              success_rate |-> Frac(Len(valid_times), Len(valid_times)),
              total_queries |-> Len(valid_times)]
\* lines 84-100; the timestamp is not modelled
from_results(results) ==
    LET valid_times == TimesOf(results)
    IN  IF valid_times = <<>>
        THEN [min_time |-> Zero, max_time |-> Zero, avg_time |-> Zero,
              median_time |-> Zero, std_dev |-> Zero, success_rate |-> Zero,
              total_queries |-> Len(results)]
        ELSE [min_time |-> Frac(Sorted(valid_times)[1], 1),
              max_time |-> Frac(Sorted(valid_times)[Len(valid_times)], 1),
              avg_time |-> Mean(valid_times),
              median_time |-> Median(valid_times),
              std_dev |-> IF Len(valid_times) > 1 THEN Stdev(valid_times) ELSE Zero,
              success_rate |-> Frac(Len(valid_times), Len(results)),
              total_queries |-> Len(results)]

\* ---------------------------------------------- test_resolver_speed
\* range(config.max_retries + 1) has no element left at index attempt
RangeExhausted(attempt, cfg) == attempt >= cfg.max_retries + 1
\* line 156
LastAttempt(attempt, cfg) == attempt = cfg.max_retries
\* The value one attempt makes test_resolver_speed return, or "continue".
Continue == [type |-> "continue"]
\* AttemptResult that retries every failed attempt while retries remain.
AttemptResultRetryAnyFailure(o, attempt, cfg) ==
    CASE o.kind = "answer" -> DNSResult(Some(ResponseTime), None, "Success")
      [] o.kind # "answer" /\ ~LastAttempt(attempt, cfg) -> Continue
      [] o.kind = "NXDOMAIN" -> DNSResult(None, Some(o.text), "NoRecord")
      [] o.kind = "Timeout" -> DNSResult(None, Some(TimeoutMessage), "Timeout")
      [] OTHER -> DNSResult(None, Some(ErrorMessage(o.text)), "Unexpected")
AttemptResult(o, attempt, cfg) ==
    CASE o.kind = "answer" -> DNSResult(Some(ResponseTime), None, "Success")
      [] o.kind = "NXDOMAIN" -> DNSResult(None, Some(o.text), "NoRecord")
      [] o.kind = "Timeout" ->
            IF LastAttempt(attempt, cfg)
            THEN DNSResult(None, Some(TimeoutMessage), "Timeout")
            ELSE Continue
      [] OTHER -> DNSResult(None, Some(ErrorMessage(o.text)), "Unexpected")

\* ---------------------------------------------------- test_resolver
\* line 237
BreakerTripped(quick_fail_count, cfg) ==
    quick_fail_count >= DEFAULT_QUICK_FAIL_THRESHOLD
\* line 249: result.error and "timeout" in result.error.lower()
IsTimeoutFailure(result) ==
    /\ result.error # None
    /\ \E msg \in result.error : msg # <<>> /\ ContainsTimeout(Lower(msg))
\* lines 249-252
NextQuickFailCount(quick_fail_count, result) ==
    IF IsTimeoutFailure(result) THEN quick_fail_count + 1 ELSE 0
\* Backfill with entries that carry neither a time nor an error.
BackfillBlank(results) ==
    results \o [i \in 1..(Len(TEST_DOMAINS) - Len(results)) |->
                    DNSResult(None, None, "Skipped")]
\* Backfill that counts the remaining domains one short.
BackfillOneShort(results) ==
    results \o [i \in 1..(Len(TEST_DOMAINS) - Len(results) - 1) |->
                    DNSResult(None, Some(SkippedMessage), "Skipped")]
\* lines 240-242
Backfill(results) ==
    results \o [i \in 1..(Len(TEST_DOMAINS) - Len(results)) |->
                    DNSResult(None, Some(SkippedMessage), "Skipped")]

\* The frame of one test_resolver call.  pc, results, quick_fail_count, domain
\* (how many domains the for loop has taken) and attempt are the code's; the
\* rest is ghost: probed lists the domains handed to test_resolver_speed,
\* tried the outcomes of the attempts of the latest call of it, and returned
\* holds what that call returned once it has, attempts counts the calls of
\* dns_resolver.resolve, and thread is the worker thread that runs the call
\* (0 before one does).
NewTask == [pc |-> "idle", results |-> <<>>, quick_fail_count |-> 0,
            domain |-> 0, attempt |-> 0, probed |-> <<>>, tried |-> <<>>,
            returned |-> None, attempts |-> 0, thread |-> 0]

Running == {r \in Resolvers : task[r].pc \in {"head", "probe"}}
\* The executor's worker threads that run no call; it starts at most
\* max_workers threads.
IdleThreads == (1..config.max_workers) \ {task[r].thread : r \in Running}
Finished(r) == task[r].pc \in {"returned", "raised"}

\* -------------------------------------------------------------- Init
\* The process starts: argparse has read the command line, HISTORY_FILE is
\* what an earlier run left (or missing), nothing else has run.
Start(args, file) ==
    /\ config = ParseArguments(args)
    /\ store = file
    /\ failure_history = EmptyDict
    /\ active_resolvers = <<>>
    /\ dropped_resolvers = <<>>
    /\ submitted = 0
    /\ queue = <<>>
    /\ task = [r \in Resolvers |-> NewTask]
    /\ all_results = EmptyDict
    /\ consumed = {}
    /\ completed = 0
    /\ mainpc = "start"
    /\ exit_code = None
    /\ loaded = EmptyDict
    /\ updates = [r \in Resolvers |-> 0]
    /\ resolver_stats = EmptyDict
    /\ banned = {}
    /\ runs = 1

\* Command lines: every --retries from -1, every --workers up to the catalog,
\* --max-failures and --quick-fail at the default and one either side.
Args ==
    [retries : -1..MaxRetries,
     workers : 1..Len(DNS_RESOLVERS),
     max_failures : (DEFAULT_MAX_CONSECUTIVE_FAILURES - 1)..(DEFAULT_MAX_CONSECUTIVE_FAILURES + 1),
     quick_fail : (DEFAULT_QUICK_FAIL_THRESHOLD - 1)..(DEFAULT_QUICK_FAIL_THRESHOLD + 1)]

\* History files earlier runs can have written: a count per resolver, or no
\* entry for it, or no file at all.
Counts == 0..(DEFAULT_MAX_CONSECUTIVE_FAILURES + 1)
Dicts == UNION {[keys -> Counts] : keys \in SUBSET Resolvers}
Files == {MissingFile} \cup {JsonFile(d) : d \in Dicts}

\* --------------------------------------------------------- main()
\* lines 267-286: load the history, split the catalog (with no resolver left
\* the submit comprehension and the as_completed loop have nothing to do); an
\* exception of line 275 goes to the handler of line 395
Startup ==
    /\ mainpc = "start"
    /\ LET history == load_test_history(store)
       IN  /\ failure_history' = history
           /\ IF DropTestRaises(history)
              THEN /\ mainpc' = "failed"
                   /\ UNCHANGED <<loaded, active_resolvers, dropped_resolvers, banned>>
              ELSE /\ loaded' = history
                   /\ active_resolvers' =
                        SelectSeq(DNS_RESOLVERS, LAMBDA ip : ~should_drop_resolver(ip, history))
                   /\ dropped_resolvers' =
                        SelectSeq(DNS_RESOLVERS, LAMBDA ip : should_drop_resolver(ip, history))
                   /\ banned' = banned \cup
                        {ip \in Resolvers : should_drop_resolver(ip, history)}
                   /\ mainpc' = IF active_resolvers' = <<>> THEN "collect" ELSE "submit"
    /\ UNCHANGED <<config, store, submitted, queue, task, all_results, consumed,
                   completed, exit_code, updates, resolver_stats, runs>>

\* lines 308-314: executor.submit(test_resolver, resolver, config), one resolver
\* of active_resolvers at a time; after the last one main enters the
\* as_completed loop
Submit ==
    /\ mainpc = "submit"
    /\ submitted < Len(active_resolvers)
    /\ LET r == active_resolvers[submitted + 1]
       IN  /\ task' = [task EXCEPT ![r].pc = "queued"]
           /\ queue' = Append(queue, r)
    /\ submitted' = submitted + 1
    /\ mainpc' = IF submitted' = Len(active_resolvers) THEN "collect" ELSE "submit"
    /\ UNCHANGED <<config, store, failure_history, active_resolvers, dropped_resolvers,
                   all_results, consumed, completed, exit_code, loaded, updates,
                   resolver_stats, banned, runs>>

\* WorkerStart that lets a thread take a call while it runs another.
WorkerStartOnBusyThread(r) ==
    /\ queue # <<>>
    /\ Head(queue) = r
    /\ queue' = Tail(queue)
    /\ task' = [task EXCEPT ![r].pc = "head", ![r].thread = 1]
    /\ UNCHANGED <<config, store, failure_history, active_resolvers, dropped_resolvers,
                   submitted, all_results, consumed, completed, mainpc, exit_code,
                   loaded, updates, resolver_stats, banned, runs>>

\* ThreadPoolExecutor(max_workers): a worker thread that runs no call takes
\* the oldest queued call (the threads are alike: the lowest idle one stands
\* for any)
WorkerStart(r) ==
    /\ queue # <<>>
    /\ Head(queue) = r
    /\ IdleThreads # {}
    /\ queue' = Tail(queue)
    /\ task' = [task EXCEPT ![r].pc = "head",
                            ![r].thread = CHOOSE w \in IdleThreads :
                                            \A v \in IdleThreads : w <= v]
    /\ UNCHANGED <<config, store, failure_history, active_resolvers, dropped_resolvers,
                   submitted, all_results, consumed, completed, mainpc, exit_code,
                   loaded, updates,
                   resolver_stats, banned, runs>>

\* LoopHead whose worker records the run's failure in failure_history itself
\* when it backfills.
LoopHeadUpdatingHistory(r) ==
    /\ task[r].pc = "head"
    /\ LET t == task[r]
       IN  /\ task' = [task EXCEPT ![r] =
                 IF t.domain = Len(TEST_DOMAINS)
                 THEN [t EXCEPT !.pc = "returned"]
                 ELSE IF BreakerTripped(t.quick_fail_count, config)
                 THEN [t EXCEPT !.results = Backfill(t.results), !.pc = "returned"]
                 ELSE [t EXCEPT !.pc = "probe", !.domain = t.domain + 1, !.attempt = 0,
                                !.probed = Append(t.probed, TEST_DOMAINS[t.domain + 1]),
                                !.tried = <<>>, !.returned = None]]
           /\ failure_history' =
                 IF t.domain < Len(TEST_DOMAINS) /\ BreakerTripped(t.quick_fail_count, config)
                 THEN update_failure_history(r, FALSE, failure_history)
                 ELSE failure_history
    /\ UNCHANGED <<config, store, active_resolvers, dropped_resolvers,
                   submitted, queue, all_results, consumed, completed, mainpc,
                   exit_code, loaded, updates, resolver_stats, banned, runs>>

\* test_resolver, lines 235-245 and 254: the head of the loop over TEST_DOMAINS
LoopHead(r) ==
    /\ task[r].pc = "head"
    /\ LET t == task[r]
       IN  task' = [task EXCEPT ![r] =
              IF t.domain = Len(TEST_DOMAINS)
              THEN [t EXCEPT !.pc = "returned"]
              ELSE IF BreakerTripped(t.quick_fail_count, config)
              THEN [t EXCEPT !.results = Backfill(t.results), !.pc = "returned"]
              ELSE [t EXCEPT !.pc = "probe", !.domain = t.domain + 1, !.attempt = 0,
                             !.probed = Append(t.probed, TEST_DOMAINS[t.domain + 1]),
                             !.tried = <<>>, !.returned = None]]
    /\ UNCHANGED <<config, store, failure_history, active_resolvers, dropped_resolvers,
                   submitted, queue, all_results, consumed, completed, mainpc,
                   exit_code, loaded, updates,
                   resolver_stats, banned, runs>>

\* test_resolver, lines 246-252, with the value test_resolver_speed returned
Deliver(t, result) ==
    IF result = PyNone
    THEN \* result.error on None raises AttributeError out of test_resolver
         [t EXCEPT !.results = Append(t.results, result), !.pc = "raised",
                   !.returned = Some(result)]
    ELSE [t EXCEPT !.results = Append(t.results, result),
                   !.returned = Some(result),
                   !.quick_fail_count = NextQuickFailCount(t.quick_fail_count, result),
                   !.pc = "head"]

\* test_resolver_speed, lines 143-162: one pass of the attempt loop, and the
\* return to test_resolver when the pass ends the call
Attempt(r, outcomes) ==
    /\ task[r].pc = "probe"
    /\ LET t == task[r]
       IN  IF RangeExhausted(t.attempt, config)
           THEN task' = [task EXCEPT ![r] = Deliver(t, PyNone)]
           ELSE \E o \in outcomes :
                  LET res == AttemptResult(o, t.attempt, config)
                      seen == [t EXCEPT !.tried = Append(t.tried, o.kind),
                                        !.attempts = t.attempts + 1]
                  IN  task' = [task EXCEPT ![r] =
                         IF res = Continue
                         THEN [seen EXCEPT !.attempt = t.attempt + 1]
                         ELSE Deliver(seen, res)]
    /\ UNCHANGED <<config, store, failure_history, active_resolvers, dropped_resolvers,
                   submitted, queue, all_results, consumed, completed, mainpc,
                   exit_code, loaded, updates,
                   resolver_stats, banned, runs>>

\* lines 314-353: as_completed yields a finished future and main processes it;
\* future.result() re-raises what the call raised
Consume(r) ==
    /\ mainpc = "collect"
    /\ Finished(r)
    /\ r \notin consumed
    /\ consumed' = consumed \cup {r}
    /\ IF task[r].pc = "raised"
       THEN /\ mainpc' = "failed"
            /\ UNCHANGED <<all_results, completed, failure_history, updates,
                           resolver_stats>>
       ELSE /\ all_results' = Put(all_results, r, task[r].results)
            /\ completed' = completed + 1
            /\ resolver_stats' = Put(resolver_stats, r, from_results(task[r].results))
            /\ failure_history' =
                  update_failure_history(r, RunSucceeded(task[r].results), failure_history)
            /\ updates' = [updates EXCEPT ![r] = @ + 1]
            /\ UNCHANGED mainpc
    /\ UNCHANGED <<config, store, active_resolvers, dropped_resolvers, submitted, queue,
                   task, exit_code, loaded, banned, runs>>

\* lines 355-387: every future was processed; the report is printed
Finish ==
    /\ mainpc = "collect"
    /\ Cardinality(consumed) = Len(active_resolvers)
    /\ mainpc' = "save"
    /\ UNCHANGED <<config, store, failure_history, active_resolvers, dropped_resolvers,
                   submitted, queue, task, all_results, consumed, completed, exit_code,
                   loaded, updates, resolver_stats, banned, runs>>

\* save_test_history, line 178: open(HISTORY_FILE, 'w') creates the file or
\* cuts it to nothing
OpenHistoryFile ==
    /\ mainpc = "save"
    /\ store' = NotJsonFile
    /\ mainpc' = "dump"
    /\ UNCHANGED <<config, failure_history, active_resolvers, dropped_resolvers,
                   submitted, queue, task, all_results, consumed, completed, exit_code,
                   loaded, updates, resolver_stats, banned, runs>>

\* save_test_history, line 179: json.dump writes the map and the file is
\* closed; main returns
DumpHistory ==
    /\ mainpc = "dump"
    /\ store' = JsonFile(failure_history)
    /\ mainpc' = "done"
    /\ exit_code' = Some(SuccessStatus)
    /\ UNCHANGED <<config, failure_history, active_resolvers, dropped_resolvers,
                   submitted, queue, task, all_results, consumed, completed, loaded,
                   updates, resolver_stats, banned, runs>>

\* The executor's with block is left only when shutdown(wait=True) has
\* returned: no submitted call is queued or running.
ExecutorJoined == \A r \in Resolvers : task[r].pc \in {"idle", "returned", "raised"}

\* lines 395-398: the exception leaves the executor's with block, which joins
\* the workers once every submitted call has run, then sys.exit(1)
ExitOnError ==
    /\ mainpc = "failed"
    /\ ExecutorJoined
    /\ mainpc' = "exited"
    /\ exit_code' = Some(ErrorStatus)
    /\ UNCHANGED <<config, store, failure_history, active_resolvers, dropped_resolvers,
                   submitted, queue, task, all_results, consumed, completed, loaded,
                   updates, resolver_stats, banned, runs>>

\* Ctrl-C: KeyboardInterrupt is raised in the main thread, wherever main() is
\* inside its try block; what it was doing is abandoned (a file opened for
\* writing is closed as far as it was written)
Interrupt ==
    /\ mainpc \in {"start", "submit", "collect", "save", "dump"}
    /\ mainpc' = "interrupted"
    /\ UNCHANGED <<config, store, failure_history, active_resolvers, dropped_resolvers,
                   submitted, queue, task, all_results, consumed, completed, exit_code,
                   loaded, updates, resolver_stats, banned, runs>>

\* lines 392-394: the KeyboardInterrupt leaves the executor's with block, which
\* joins the workers once every submitted call has run, then sys.exit(1)
ExitOnInterrupt ==
    /\ mainpc = "interrupted"
    /\ ExecutorJoined
    /\ mainpc' = "interrupt_exit"
    /\ exit_code' = Some(InterruptStatus)
    /\ UNCHANGED <<config, store, failure_history, active_resolvers, dropped_resolvers,
                   submitted, queue, task, all_results, consumed, completed, loaded,
                   updates, resolver_stats, banned, runs>>

\* lines 402-403: the program is run again, with the same command line, on
\* the history file the last run left
Restart ==
    /\ mainpc \in {"done", "exited", "interrupt_exit"}
    /\ runs < MaxRuns
    /\ runs' = runs + 1
    /\ failure_history' = EmptyDict
    /\ active_resolvers' = <<>>
    /\ dropped_resolvers' = <<>>
    /\ submitted' = 0
    /\ queue' = <<>>
    /\ task' = [r \in Resolvers |-> NewTask]
    /\ all_results' = EmptyDict
    /\ consumed' = {}
    /\ completed' = 0
    /\ mainpc' = "start"
    /\ exit_code' = None
    /\ loaded' = EmptyDict
    /\ updates' = [r \in Resolvers |-> 0]
    /\ resolver_stats' = EmptyDict
    /\ UNCHANGED <<config, store, banned>>

\* ---------------------------------------------------- specifications
\* A whole run over the catalog, under every --workers and --max-failures and
\* every history file; an attempt answers or times out and is not retried
\* (--retries 0), or no attempt is made at all (--retries -1).
RunArgs == {a \in Args : a.retries <= 0 /\ a.quick_fail = DEFAULT_QUICK_FAIL_THRESHOLD}

Init == \E args \in RunArgs, file \in Files : Start(args, file)

Next ==
    \/ Startup
    \/ Submit
    \/ \E r \in Resolvers : WorkerStart(r)
    \/ \E r \in Resolvers : LoopHead(r)
    \/ \E r \in Resolvers : Attempt(r, RunOutcomes)
    \/ \E r \in Resolvers : Consume(r)
    \/ Finish
    \/ OpenHistoryFile
    \/ DumpHistory
    \/ ExitOnError

Spec == Init /\ [][Next]_vars

\* The run of one resolver in full: the history file has dropped every other
\* resolver, and each attempt has any outcome of the resolution primitive,
\* under every --retries and --quick-fail.
TaskArgs == {a \in Args : a.workers = 1 /\ a.max_failures = DEFAULT_MAX_CONSECUTIVE_FAILURES}
TaskFiles ==
    {JsonFile([ip \in Resolvers \ {only} |-> DEFAULT_MAX_CONSECUTIVE_FAILURES]) :
        only \in Resolvers}

TaskInit == \E args \in TaskArgs, file \in TaskFiles : Start(args, file)

TaskNext ==
    \/ Startup
    \/ Submit
    \/ \E r \in Resolvers : WorkerStart(r)
    \/ \E r \in Resolvers : LoopHead(r)
    \/ \E r \in Resolvers : Attempt(r, AllOutcomes)
    \/ \E r \in Resolvers : Consume(r)
    \/ Finish
    \/ OpenHistoryFile
    \/ DumpHistory
    \/ ExitOnError

TaskSpec == TaskInit /\ [][TaskNext]_vars
\* Every call of dns_resolver.resolve returns or raises and no thread is
\* starved: a step that can be taken is taken.
TaskFairSpec == TaskSpec /\ WF_vars(TaskNext)

\* Statistics.from_results on every result list: main is about to process the
\* completed call of the one resolver it scheduled, and the call's result list
\* is any list of up to MaxLen results.
ResultEntries ==
    {DNSResult(Some(t), None, "Success") : t \in 1..MaxTime} \cup
    {DNSResult(None, Some(TimeoutMessage), "Timeout"),
     DNSResult(None, Some(SkippedMessage), "Skipped")}
ResultLists == UNION {[1..n -> ResultEntries] : n \in 0..MaxLen}

StatsInit ==
    \E results \in ResultLists :
      LET tested == DNS_RESOLVERS[1]
          history == [ip \in Resolvers \ {tested} |-> DEFAULT_MAX_CONSECUTIVE_FAILURES]
      IN  /\ config = ParseArguments([retries |-> 0, workers |-> 1,
                         max_failures |-> DEFAULT_MAX_CONSECUTIVE_FAILURES,
                         quick_fail |-> DEFAULT_QUICK_FAIL_THRESHOLD])
          /\ store = JsonFile(history)
          /\ failure_history = history
          /\ loaded = history
          /\ active_resolvers = <<tested>>
          /\ dropped_resolvers = SelectSeq(DNS_RESOLVERS, LAMBDA ip : ip # tested)
          /\ submitted = 1
          /\ queue = <<>>
          /\ task = [r \in Resolvers |->
                       IF r = tested
                       THEN [NewTask EXCEPT !.pc = "returned", !.results = results,
                                            !.thread = 1]
                       ELSE NewTask]
          /\ all_results = EmptyDict
          /\ consumed = {}
          /\ completed = 0
          /\ mainpc = "collect"
          /\ exit_code = None
          /\ updates = [r \in Resolvers |-> 0]
          /\ resolver_stats = EmptyDict
          /\ banned = Resolvers \ {tested}
          /\ runs = 1

StatsNext ==
    \/ \E r \in Resolvers : Consume(r)
    \/ Finish
    \/ OpenHistoryFile
    \/ DumpHistory

StatsSpec == StatsInit /\ [][StatsNext]_vars

\* The program as it is operated: started on whatever is in the history
\* file's place, interrupted with Ctrl-C at any moment, and started again;
\* --retries 0 and the default thresholds, every query answered or timed out.
OpsArgs ==
    {a \in Args : /\ a.retries = 0
                  /\ a.max_failures = DEFAULT_MAX_CONSECUTIVE_FAILURES
                  /\ a.quick_fail = DEFAULT_QUICK_FAIL_THRESHOLD}
OpsFiles ==
    {MissingFile, NotJsonFile, OtherJsonFile} \cup
    {JsonFile([ip \in Resolvers |->
                 IF ip = seen THEN DEFAULT_MAX_CONSECUTIVE_FAILURES
                 ELSE DEFAULT_MAX_CONSECUTIVE_FAILURES - 1]) : seen \in Resolvers}

OpsInit == \E args \in OpsArgs, file \in OpsFiles : Start(args, file)

OpsNext ==
    \/ Startup
    \/ Submit
    \/ \E r \in Resolvers : WorkerStart(r)
    \/ \E r \in Resolvers : LoopHead(r)
    \/ \E r \in Resolvers : Attempt(r, RunOutcomes)
    \/ \E r \in Resolvers : Consume(r)
    \/ Finish
    \/ OpenHistoryFile
    \/ DumpHistory
    \/ ExitOnError
    \/ Interrupt
    \/ ExitOnInterrupt
    \/ Restart

OpsSpec == OpsInit /\ [][OpsNext]_vars

\* The same with no Ctrl-C: every run is left to end by itself.
RerunNext ==
    \/ Startup
    \/ Submit
    \/ \E r \in Resolvers : WorkerStart(r)
    \/ \E r \in Resolvers : LoopHead(r)
    \/ \E r \in Resolvers : Attempt(r, RunOutcomes)
    \/ \E r \in Resolvers : Consume(r)
    \/ Finish
    \/ OpenHistoryFile
    \/ DumpHistory
    \/ ExitOnError
    \/ Restart

RerunSpec == OpsInit /\ [][RerunNext]_vars

\* ------------------------------------------------------- properties
\* The class of an entry of a result list; "None" for a value that is no
\* DNSResult.
Cls(x) == IF x.type = "DNSResult" THEN x.cls ELSE "None"
Scheduled == {active_resolvers[i] : i \in 1..Len(active_resolvers)}

\* C1: with the quick-fail threshold at 3, a Skipped entry stands only in a
\* suffix of Skipped entries that directly follows 3 consecutive Timeout
\* entries, and 3 consecutive Timeout entries are followed by nothing but
\* Skipped entries.  (As claimed; the breaker also counts an Unexpected
\* result whose text holds "timeout", see C7.)
C1_SkippedOnlyAfterThreeTimeouts ==
    config.quick_fail_threshold = 3 =>
      \A r \in Resolvers :
        LET res == task[r].results
        IN  \A i \in 1..Len(res) :
              /\ Cls(res[i]) = "Skipped" =>
                    /\ i > 3
                    /\ \/ Cls(res[i - 1]) = "Skipped"
                       \/ \A j \in (i - 3)..(i - 1) : Cls(res[j]) = "Timeout"
                    /\ i < Len(res) => Cls(res[i + 1]) = "Skipped"
              /\ (i + 3 <= Len(res) /\ \A j \in i..(i + 2) : Cls(res[j]) = "Timeout")
                    => Cls(res[i + 3]) = "Skipped"

\* C2: the list test_resolver returns is as long as the domain catalog, and
\* its i-th entry is the result for the i-th catalog domain: the domains were
\* probed in catalog order, one entry appended per probe, and the backfill
\* fills exactly the domains not probed.
C2_ResultListLength ==
    \A r \in Resolvers :
      LET t == task[r]
      IN  /\ \A i \in 1..Len(t.probed) : t.probed[i] = TEST_DOMAINS[i]
          /\ t.pc = "head" => Len(t.results) = Len(t.probed)
          /\ t.pc = "returned" =>
                /\ Len(t.results) = Len(TEST_DOMAINS)
                /\ \A i \in 1..Len(t.results) :
                      Cls(t.results[i]) = "Skipped" <=> i > Len(t.probed)
          /\ r \in DOMAIN all_results => Len(all_results[r]) = Len(TEST_DOMAINS)

\* C2 witness: a call returned with the breaker tripped before the last
\* domain, its list backfilled.
C2_Witness ==
    \E r \in Resolvers :
      /\ task[r].pc = "returned"
      /\ Len(task[r].probed) < Len(TEST_DOMAINS)
      /\ Cls(task[r].results[Len(TEST_DOMAINS)]) = "Skipped"
      /\ r \in DOMAIN all_results

\* The streak reaches the threshold on the last domain: nothing is backfilled.
C2_TripOnLastDomain ==
    \E r \in Resolvers :
      /\ task[r].pc = "returned"
      /\ task[r].quick_fail_count >= DEFAULT_QUICK_FAIL_THRESHOLD
      /\ Len(task[r].probed) = Len(TEST_DOMAINS)

\* What the latest call of test_resolver_speed in r's task returned; defined
\* once it has returned.
HasReturned(r) == task[r].returned # None
Returned(r) == CHOOSE v \in task[r].returned : TRUE
AllTimedOut(tried) == \A i \in 1..Len(tried) : tried[i] = "Timeout"

\* C3: a call of test_resolver_speed makes at most max_retries + 1 attempts,
\* each attempt but the first follows an attempt that timed out, and the
\* call returns the Timeout error exactly when all max_retries + 1 attempts
\* timed out; an attempt that is answered returns a response time and no
\* error.  (As claimed; with max_retries < 0 the call makes no attempt and
\* returns None, see C10.)
C3_AttemptsAndTimeout ==
    \A r \in Resolvers :
      LET t == task[r]
      IN  /\ Len(t.tried) <= config.max_retries + 1
          /\ \A i \in 1..(Len(t.tried) - 1) : t.tried[i] = "Timeout"
          /\ HasReturned(r) =>
                /\ Cls(Returned(r)) = "Timeout"
                      <=> (Len(t.tried) = config.max_retries + 1 /\ AllTimedOut(t.tried))
                /\ (t.tried # <<>> /\ t.tried[Len(t.tried)] = "answer") =>
                      /\ Cls(Returned(r)) = "Success"
                      /\ Returned(r).response_time # None
                      /\ Returned(r).error = None

\* Whether r's completed run had a result with a response time.
HadSuccess(r) ==
    \E i \in 1..Len(all_results[r]) : all_results[r][i].response_time # None

\* C4: once main has processed the completed run of a scheduled resolver, the
\* resolver's counter is 0 if and only if one of its results has a response
\* time, and otherwise is the loaded count (0 if absent) plus 1; the update
\* was applied once, and not at all for a resolver not yet processed.
C4_CounterUpdate ==
    \A r \in Resolvers :
      IF r \in DOMAIN all_results
      THEN /\ updates[r] = 1
           /\ failure_history[r] = 0 <=> HadSuccess(r)
           /\ ~HadSuccess(r) => failure_history[r] = Get(loaded, r) + 1
      ELSE /\ updates[r] = 0
           /\ mainpc # "start" => Get(failure_history, r) = Get(loaded, r)

\* C4 witness: the run ended normally with one resolver reset from a stored
\* count above 0 and the other, with no stored count, counted as failed.
C4_Witness ==
    /\ mainpc = "done"
    /\ \E r, q \in DOMAIN all_results :
         /\ Get(loaded, r) > 0 /\ HadSuccess(r) /\ failure_history[r] = 0
         /\ q \notin DOMAIN loaded /\ ~HadSuccess(q) /\ failure_history[q] = 1

DroppedSet == {dropped_resolvers[i] : i \in 1..Len(dropped_resolvers)}

\* C5: a resolver is excluded from the run exactly when its loaded count is
\* at least the configured max_consecutive_failures; the excluded resolvers
\* are the dropped list and every other catalog resolver is scheduled.
C5_DropAtConfiguredThreshold ==
    mainpc # "start" =>
      \A r \in Resolvers :
        /\ r \in DroppedSet <=> Get(loaded, r) >= config.max_consecutive_failures
        /\ r \in Scheduled <=> r \notin DroppedSet

\* C6: under every configured quick_fail_threshold q the task trips its
\* breaker only with q consecutive timeouts counted, and issues no probe with
\* q of them counted.
C6_TripAtConfiguredThreshold ==
    \A r \in Resolvers :
      LET t == task[r]
      IN  /\ (\E i \in 1..Len(t.results) : Cls(t.results[i]) = "Skipped")
                => t.quick_fail_count >= config.quick_fail_threshold
          /\ t.pc = "probe" => t.quick_fail_count < config.quick_fail_threshold

\* The number of Timeout-class results at the end of a result list.
RECURSIVE TrailingTimeouts(_)
TrailingTimeouts(res) ==
    IF res = <<>> \/ Cls(res[Len(res)]) # "Timeout" THEN 0
    ELSE 1 + TrailingTimeouts(SubSeq(res, 1, Len(res) - 1))

\* C7: the quick-fail counter counts the Timeout-class results and nothing
\* else: while the task probes, it is the number of Timeout results since the
\* last result of another class.
C7_CounterCountsTimeoutClass ==
    \A r \in Resolvers :
      task[r].pc \in {"head", "probe"} =>
        task[r].quick_fail_count = TrailingTimeouts(task[r].results)

\* C8: an attempt that fails with NXDOMAIN/NoAnswer or with any exception
\* other than a timeout is the last attempt of its call, and the call has
\* returned an error result.
C8_NoRetryOfOtherFailures ==
    \A r \in Resolvers :
      LET t == task[r]
      IN  \A i \in 1..Len(t.tried) :
            t.tried[i] \in {"NXDOMAIN", "Exception"} =>
              /\ i = Len(t.tried)
              /\ HasReturned(r)
              /\ Cls(Returned(r)) = (IF t.tried[i] = "NXDOMAIN" THEN "NoRecord" ELSE "Unexpected")
              /\ Returned(r).error # None
              /\ Returned(r).response_time = None

\* C8 witness: with a retry left, the first attempt of a call failed with
\* NXDOMAIN/NoAnswer or another exception, and the call has returned.
C8_Witness ==
    \E r \in Resolvers :
      /\ config.max_retries >= 1
      /\ Len(task[r].tried) = 1
      /\ task[r].tried[1] \in {"NXDOMAIN", "Exception"}
      /\ HasReturned(r)

\* A retry made after a timeout failed with NXDOMAIN/NoAnswer or another
\* exception.
C8_FailureOnRetry ==
    \E r \in Resolvers :
      /\ Len(task[r].tried) = 2
      /\ task[r].tried[2] \in {"NXDOMAIN", "Exception"}

ExactlyOneSet(x) == (x.response_time = None) # (x.error = None)

\* C9: every DNSResult of every result list, a task's own or one main has
\* stored, has exactly one of response_time and error set, and a stored list
\* holds nothing but DNSResults.
C9_ExactlyOneOfTimeAndError ==
    \A r \in Resolvers :
      /\ \A i \in 1..Len(task[r].results) :
            task[r].results[i].type = "DNSResult" => ExactlyOneSet(task[r].results[i])
      /\ r \in DOMAIN all_results =>
            \A i \in 1..Len(all_results[r]) :
              all_results[r][i].type = "DNSResult" /\ ExactlyOneSet(all_results[r][i])

\* C9 witness: a stored list that holds Timeout and Skipped entries.
C9_Witness ==
    \E r \in DOMAIN all_results :
      /\ \E i \in 1..Len(all_results[r]) : all_results[r][i].cls = "Timeout"
      /\ \E i \in 1..Len(all_results[r]) : all_results[r][i].cls = "Skipped"

\* C10: under every max_retries a call of test_resolver_speed returns a
\* DNSResult, no test_resolver call raises and main is not ended by one.
C10_ProbeAlwaysReturnsResult ==
    /\ \A r \in Resolvers :
         /\ HasReturned(r) => Returned(r).type = "DNSResult"
         /\ task[r].pc # "raised"
    /\ mainpc \notin {"failed", "exited"}

\* The results of list xs that have a response time.
Present(xs) == {i \in 1..Len(xs) : xs[i].response_time # None}

\* C17: the Statistics main stored for a processed result list has
\* total_queries equal to the list's length; its success_rate times the
\* length is the number of results with a response time; and when no result
\* has a response time, min, max, avg, median, std_dev and success_rate are
\* all 0.
C17_StatisticsCountsAndRate ==
    \A r \in DOMAIN resolver_stats :
        LET xs == all_results[r]
            st == resolver_stats[r]
        IN  /\ st.total_queries = Len(xs)
            /\ st.success_rate.num * Len(xs) = Cardinality(Present(xs)) * st.success_rate.den
            /\ st.success_rate.den > 0
            /\ Present(xs) = {} =>
                 /\ st.min_time = Zero
                 /\ st.max_time = Zero
                 /\ st.avg_time = Zero
                 /\ st.median_time = Zero
                 /\ st.std_dev = Zero
                 /\ st.success_rate = Zero
\* Statistics stand for a list that mixes results with and without a
\* response time, and for a list of Timeout and Skipped results only.
C17_Witness ==
    \E r \in DOMAIN resolver_stats :
        /\ Len(all_results[r]) = MaxLen
        /\ Cardinality(Present(all_results[r])) = MaxLen - 1
        /\ resolver_stats[r].success_rate = Frac(MaxLen - 1, MaxLen)
C17_WitnessNoTimes ==
    \E r \in DOMAIN resolver_stats :
        /\ Len(all_results[r]) = MaxLen
        /\ Present(all_results[r]) = {}
        /\ \E i \in 1..MaxLen : Cls(all_results[r][i]) = "Skipped"
        /\ \E i \in 1..MaxLen : Cls(all_results[r][i]) = "Timeout"

\* The resolvers a future was created for.
Submitted == {r \in Resolvers : task[r].pc # "idle"}

\* C11: at most max_workers calls of test_resolver run at a time, each on a
\* worker thread of its own that the executor started; a future is created
\* only for an active resolver and once (all of them once the submit
\* comprehension is through); a queued call has not started; a completed
\* future is processed at most once, and every one exactly once when main
\* leaves the as_completed loop.
C11_BoundedWorkersOneTaskEach ==
    /\ Cardinality(Running) <= config.max_workers
    /\ \A r \in Running : task[r].thread \in 1..config.max_workers
    /\ \A r1, r2 \in Running : task[r1].thread = task[r2].thread => r1 = r2
    /\ Submitted \subseteq Scheduled
    /\ submitted = Cardinality(Submitted)
    /\ mainpc \in {"collect", "save", "dump", "done"} => Submitted = Scheduled
    /\ \A r \in Resolvers : task[r].pc = "queued" => task[r].thread = 0
    /\ \A r \in consumed : Finished(r)
    /\ \A r \in Resolvers :
          updates[r] = (IF r \in consumed /\ task[r].pc = "returned" THEN 1 ELSE 0)
    /\ completed = Cardinality({r \in consumed : task[r].pc = "returned"})
    /\ mainpc \in {"save", "dump", "done"} =>
          /\ consumed = Scheduled
          /\ completed = Len(active_resolvers)
\* With one worker, the thread that ran a call to its end runs the next
\* resolver's call while main has processed the first.
C11_Witness ==
    /\ config.max_workers = 1
    /\ \E r1, r2 \in Resolvers :
          /\ r1 \in consumed
          /\ r2 \in Running
          /\ task[r1].thread = task[r2].thread
\* With two workers, two calls run at once.
C11_TwoRunning == config.max_workers = 2 /\ Cardinality(Running) = 2
\* With one worker, one call waits in the queue while the other runs.
C11_OneWaits ==
    /\ config.max_workers = 1
    /\ \E r1, r2 \in Resolvers : r1 \in Running /\ task[r2].pc = "queued"

\* C12: failure_history is assigned only by main, when it loads the file
\* before any future exists, and when it processes one completed future, and
\* then only at that future's resolver; the active and dropped lists are
\* built from it only before any future exists; no step of a worker (a step
\* that changes a test_resolver frame) changes failure_history.
C12_HistoryTouchedOnlyByMain ==
    [][ /\ failure_history' # failure_history =>
             \/ mainpc = "start" /\ Submitted = {}
             \/ /\ mainpc = "collect"
                /\ task' = task
                /\ \E r \in Resolvers \ consumed :
                      /\ consumed' = consumed \cup {r}
                      /\ \A ip \in Resolvers \ {r} :
                            /\ Get(failure_history', ip) = Get(failure_history, ip)
                            /\ ip \in DOMAIN failure_history' <=> ip \in DOMAIN failure_history
        /\ task' # task => failure_history' = failure_history
        /\ (active_resolvers' # active_resolvers \/ dropped_resolvers' # dropped_resolvers) =>
             mainpc = "start" /\ Submitted = {}
      ]_vars
\* main has changed one resolver's counter while the other resolver's call is
\* still running.
C12_Witness ==
    \E r1, r2 \in Resolvers :
        /\ r1 \in consumed
        /\ Get(failure_history, r1) # Get(loaded, r1)
        /\ r2 \in Running

\* main has loaded the history and split the catalog.
StartupDone == Len(active_resolvers) + Len(dropped_resolvers) = Len(DNS_RESOLVERS)

\* C13: from the load on, HISTORY_FILE holds what was loaded from it until
\* main, having processed every future, is writing it (or has written it);
\* so it is written only then, and a run that a KeyboardInterrupt ends leaves
\* it as it was loaded.
C13_HistoryFileKeptUnlessRunCompletes ==
    (StartupDone /\ mainpc \notin {"dump", "done"}) =>
        load_test_history(store) = loaded
\* The same with the runs left out that the interrupt ends inside
\* save_test_history.
C13_KeptUnlessSaving ==
    (StartupDone /\ mainpc \notin {"dump", "done"}) =>
        \/ load_test_history(store) = loaded
        \/ /\ mainpc \in {"interrupted", "interrupt_exit"}
           /\ store = NotJsonFile
           /\ consumed = Scheduled
\* HISTORY_FILE changes in two steps only, open and dump, one after the
\* other, after every future was processed.
C13_WrittenOnceAtEnd ==
    [][store' # store =>
          /\ consumed = Scheduled
          /\ \/ mainpc = "save" /\ mainpc' = "dump"
             \/ mainpc = "dump" /\ mainpc' = "done"
      ]_vars

\* C14: once main has caught a KeyboardInterrupt, a call that is still queued
\* in the executor stays queued.
C14_NoTaskStartsAfterInterrupt ==
    [][(mainpc \in {"interrupted", "interrupt_exit"}) =>
          (\A r \in Resolvers : task[r].pc = "queued" => task'[r].pc = "queued")
      ]_vars

\* C15: a run that completes exits with the success status, a run that a
\* KeyboardInterrupt ends with a status that is neither the success status
\* nor the error status, and a run that an exception ends with a status that
\* is neither the success status nor the interrupted status.
C15_ThreeExitStatuses ==
    /\ mainpc = "done" => exit_code = Some(SuccessStatus)
    /\ mainpc = "interrupt_exit" =>
          exit_code \notin {None, Some(SuccessStatus), Some(ErrorStatus)}
    /\ mainpc = "exited" =>
          exit_code \notin {None, Some(SuccessStatus), Some(InterruptStatus)}
\* The same without the demand that interrupt and error differ.
C15_FailureStatusesNotSuccess ==
    /\ mainpc = "done" => exit_code = Some(SuccessStatus)
    /\ mainpc \in {"interrupt_exit", "exited"} =>
          exit_code \notin {None, Some(SuccessStatus)}

\* C16: a run started on a missing HISTORY_FILE, or on one that does not hold
\* a mapping from address to integer, loads the empty map and schedules every
\* resolver of the catalog, and no run ends in the handler of line 395
\* unless a call of test_resolver raised.
C16_CorruptStoreIsEmptyMap ==
    /\ (mainpc \in {"submit", "collect", "save"} /\ store.kind # "dict") =>
          /\ loaded = EmptyDict
          /\ active_resolvers = DNS_RESOLVERS
    /\ mainpc \in {"failed", "exited"} =>
          \E r \in Resolvers : task[r].pc = "raised"
\* The same for the missing file and the file json.load rejects.
C16_MissingOrUndecodableIsEmptyMap ==
    /\ (mainpc \in {"submit", "collect", "save"} /\ store.kind # "dict") =>
          /\ loaded = EmptyDict
          /\ active_resolvers = DNS_RESOLVERS
    /\ (mainpc \in {"failed", "exited"} /\ store.kind # "other_json") =>
          \E r \in Resolvers : task[r].pc = "raised"
C16_UndecodableLoaded ==
    mainpc = "collect" /\ store = NotJsonFile /\ active_resolvers = DNS_RESOLVERS

\* C18: a resolver that some run found at or over the threshold of
\* should_drop_resolver in the history file is not scheduled by that run nor
\* by any later one and no run updates its counter: the counter in main's
\* map stays the loaded one, and between runs the file holds a count for it
\* at or over the threshold.
C18_DroppingIsAbsorbing ==
    \A r \in banned :
        /\ r \notin Scheduled
        /\ updates[r] = 0
        /\ StartupDone => Get(failure_history, r) = Get(loaded, r)
        /\ mainpc \in {"start", "done", "exited", "interrupt_exit"} =>
              Get(load_test_history(store), r) >= DEFAULT_MAX_CONSECUTIVE_FAILURES
\* A later run that completed has left the dropped resolver's count as the
\* first run found it.
C18_DroppedKeptByLaterRun ==
    /\ runs > 1
    /\ mainpc = "done"
    /\ \E r \in banned : /\ r \notin Scheduled
                         /\ Get(store.data, r) = DEFAULT_MAX_CONSECUTIVE_FAILURES

\* The map a completed run leaves, resolver by resolver: a scheduled
\* resolver's count from the loaded count and its own result list, any other
\* entry as loaded.
HistoryByResolver ==
    [ip \in DOMAIN loaded \cup Scheduled |->
        IF ip \in Scheduled
        THEN IF HadSuccess(ip) THEN 0 ELSE Get(loaded, ip) + 1
        ELSE loaded[ip]]
\* The number of results at the end of a result list that line 249 counts.
RECURSIVE TrailingCounted(_)
TrailingCounted(res) ==
    IF res = <<>> \/ ~IsTimeoutFailure(res[Len(res)]) THEN 0
    ELSE 1 + TrailingCounted(SubSeq(res, 1, Len(res) - 1))
\* A step of the worker that runs r's call.
WorkerStep(r) == task[r].pc \in {"queued", "head", "probe"} /\ task'[r] # task[r]

\* C19: the file a completed run has written is, entry by entry, a function
\* of the loaded map and of each scheduled resolver's own result list, in
\* whatever order the calls ran and completed; while a call runs, its
\* quick-fail counter is a function of its own result list, which has one
\* entry per domain it has finished; and a worker step changes its own
\* call's frame and nothing that another call or main's bookkeeping reads.
C19_OrderIndependent ==
    /\ [](mainpc = "done" => store = JsonFile(HistoryByResolver))
    /\ [](\A r \in Resolvers :
            task[r].pc \in {"head", "probe"} =>
              /\ task[r].quick_fail_count = TrailingCounted(task[r].results)
              /\ Len(task[r].results) =
                    task[r].domain - (IF task[r].pc = "probe" THEN 1 ELSE 0))
    /\ [][\A r \in Resolvers :
            WorkerStep(r) =>
              /\ \A q \in Resolvers \ {r} : task'[q] = task[q]
              /\ UNCHANGED <<config, store, failure_history, active_resolvers,
                             dropped_resolvers, submitted, all_results, consumed,
                             completed, mainpc, exit_code, resolver_stats>>
       ]_vars
\* With two workers a run has completed in which one resolver, with a stored
\* count, succeeded and the other failed.
C19_Witness ==
    /\ mainpc = "done"
    /\ config.max_workers = 2
    /\ \E r1, r2 \in Scheduled :
          /\ HadSuccess(r1) /\ Get(loaded, r1) > 0 /\ store.data[r1] = 0
          /\ ~HadSuccess(r2) /\ store.data[r2] = Get(loaded, r2) + 1
\* The second resolver of the catalog was processed while the call of the
\* first still runs.
C19_CompletedOutOfCatalogOrder ==
    DNS_RESOLVERS[2] \in consumed /\ DNS_RESOLVERS[1] \in Running

\* C20: a call of test_resolver makes at most Len(TEST_DOMAINS) *
\* (max_retries + 1) calls of dns_resolver.resolve, and a run that can take
\* no further step has processed every scheduled resolver's future and has
\* written the history file.
C20_BoundedAttemptsAndCompletion ==
    /\ \A r \in Resolvers :
          task[r].attempts <= Len(TEST_DOMAINS) * (config.max_retries + 1)
    /\ \/ ENABLED TaskNext
       \/ /\ mainpc = "done"
          /\ consumed = Scheduled
          /\ store = JsonFile(failure_history)
\* The same for --retries 0 and above.
C20_WithRetriesFromZero ==
    config.max_retries >= 0 => C20_BoundedAttemptsAndCompletion
\* and as the liveness it stands for, under TaskFairSpec
C20_CompletesWithRetriesFromZero ==
    (config.max_retries >= 0) ~> (mainpc = "done" /\ consumed = Scheduled)
\* A call has made every attempt the bound allows.
C20_BoundReached ==
    \E r \in Resolvers :
        /\ config.max_retries = MaxRetries
        /\ task[r].attempts = Len(TEST_DOMAINS) * (config.max_retries + 1)

====
